---- MODULE Spec2Model ----
(***************************************************************************)
(* A model of AutoTY.py, the "Inspirational Shorts" batch pipeline:        *)
(* fetch quotes, then for each quote synthesize the voice, generate the    *)
(* slide, assemble the video, create the thumbnail, upload with a          *)
(* scheduled publish time, and remove the per-item files.                  *)
(*                                                                         *)
(* Python strings are modelled as sequences of one-character strings, so   *)
(* that str.replace acts on characters.  Files are <<kind, index>> pairs   *)
(* in the set fs (the content of the temp directory).                      *)
(***************************************************************************)
EXTENDS Integers, Sequences, FiniteSets, TLC

VARIABLES
    pc,         \* position of main: "start", a stage name, "done", "aborted"
    idx,        \* loop index of main (enumerate)
    quotes,     \* the list returned by fetch_quotes
    start,      \* base datetime of the schedule (main, line 175)
    fs,         \* files present in OUTPUT_DIR
    tokenFile,  \* token.pickle: <<>> when absent, <<creds>> when present
    outcome,    \* per item, the upload request's result: "none", "uploaded", "denied", "error"
    sent,       \* per item, the arguments handed to upload_video
    log,        \* the stages started so far, in order, as <<stage, index>>
    failed,     \* the stage whose exception left main, or "none"
    authCalls,  \* number of calls of get_authenticated_service
    buildCalls, \* number of clients built (googleapiclient build)
    auth,       \* result of the last get_authenticated_service call
    fqData,     \* fetch_quotes under test: the JSON array of the response
    fqMax,      \* fetch_quotes under test: max_entries
    fqOut,      \* fetch_quotes under test: <<>> before the call, <<result>> after
    ghAuthor,   \* generate_hashtags under test: the author string
    ghOut,      \* generate_hashtags under test: <<>> before, <<result>> after
    clRuns,     \* cleanup step under test: number of runs of the step
    clRaised,   \* cleanup step under test: whether a run raised
    clBefore    \* cleanup step under test: the files present before each run

vars == <<pc, idx, quotes, start, fs, tokenFile, outcome, sent, log, failed,
          authCalls, buildCalls, auth, fqData, fqMax, fqOut, ghAuthor, ghOut,
          clRuns, clRaised, clBefore>>

pipeVars == <<pc, idx, quotes, start, tokenFile, outcome, sent, log, failed,
              authCalls, buildCalls, auth>>
fetchVars == <<fqData, fqMax, fqOut>>
tagVars == <<ghAuthor, ghOut>>
cleanVars == <<clRuns, clRaised, clBefore>>

---------------------------------------------------------------------------
(* Bounds of the model *)

\* longest JSON array the quote endpoint answers with in a pipeline run
MaxResp == 8
\* longest response and largest max_entries tried on fetch_quotes alone
MaxFetchLen == 3
\* longest author string tried on generate_hashtags alone
MaxAuthorLen == 3
\* item indices 0..MaxCleanIdx tried on the cleanup step alone
MaxCleanIdx == 1

(* Program constants *)

\* main: fetch_quotes(10)
MAX_ENTRIES == 10
\* main: day_offset = idx // 5, slot = idx % 5
SLOTS_PER_DAY == 5
\* main: hours=slot*2
SLOT_HOURS == 2
\* main: replace(hour=9, ...)
START_HOUR == 9
\* upload_video: e.resp.status == 403
FORBIDDEN == 403

Min(a, b) == IF a < b THEN a ELSE b

---------------------------------------------------------------------------
(* Python strings *)

Str_Inspiration == <<"I","n","s","p","i","r","a","t","i","o","n">>
Str_Motivation == <<"M","o","t","i","v","a","t","i","o","n">>
Str_DailyQuote == <<"D","a","i","l","y","Q","u","o","t","e">>
Str_Viral == <<"V","i","r","a","l">>
Str_Shorts == <<"S","h","o","r","t","s">>

\* str.isspace characters that occur in the model's alphabet
Whitespace == {" ", "\t", "\n"}

\* s.replace(old, ""), old a single character
StrRemove(s, old) == SelectSeq(s, LAMBDA c : c # old)

---------------------------------------------------------------------------
(* 1. fetch_quotes *)

\* dict.get(key, default)
DictGet(item, key, default) == IF key \in DOMAIN item THEN item[key] ELSE default

\* data[:stop] for stop >= 0
RECURSIVE SliceTo(_, _)
SliceTo(data, stop) ==
    IF stop <= 0 \/ data = <<>> THEN <<>>
    ELSE <<Head(data)>> \o SliceTo(Tail(data), stop - 1)

QuoteOf(item) == [quote |-> DictGet(item, "q", <<>>), author |-> DictGet(item, "a", <<>>)]

fetch_quotes_offbyone(data, max_entries) ==
    LET cut == SliceTo(data, max_entries - 1)
    IN  [j \in 1..Len(cut) |-> QuoteOf(cut[j])]

\* lines 66-67, the response being the JSON array data
fetch_quotes(data, max_entries) ==
    LET cut == SliceTo(data, max_entries)
    IN  [j \in 1..Len(cut) |-> QuoteOf(cut[j])]

---------------------------------------------------------------------------
(* 5. generate_hashtags *)

generate_hashtags(entry) ==
    LET base == <<Str_Inspiration, Str_Motivation, Str_DailyQuote, Str_Viral, Str_Shorts>>
        author_tag == StrRemove(entry.author, " ")
        all == base \o <<author_tag>>
    IN  [j \in 1..Len(all) |-> <<"#">> \o all[j]]

---------------------------------------------------------------------------
(* datetime arithmetic of main *)

\* datetime.replace(hour=h, minute=0, second=0, microsecond=0)
ReplaceTime(now, h) == [day |-> now.day, hour |-> h, minute |-> 0]

\* datetime + timedelta(days=d, hours=h)
AddDelta(t, d, h) ==
    LET total == t.hour + h
    IN  [day |-> t.day + d + (total \div 24), hour |-> total % 24, minute |-> t.minute]

publish_time_slot4(base, i) ==
    AddDelta(base, i \div (SLOTS_PER_DAY - 1), (i % (SLOTS_PER_DAY - 1)) * SLOT_HOURS)

\* main, lines 190-194
publish_time(base, i) ==
    LET day_offset == i \div SLOTS_PER_DAY
        slot == i % SLOTS_PER_DAY
    IN  AddDelta(base, day_offset, slot * SLOT_HOURS)

---------------------------------------------------------------------------
(* Files of OUTPUT_DIR *)

voice_fp(k) == <<"voice", k>>
slide_fp(k) == <<"slide", k>>
video_fp(k) == <<"video", k>>
thumb_fp(k) == <<"thumb", k>>
\* serenity_<int(time.time())>.png; the call that wrote it stands for the timestamp
frame_path(k) == <<"serenity", k>>

ItemFiles(k) == {voice_fp(k), slide_fp(k), video_fp(k), thumb_fp(k)}

\* os.remove: FileNotFoundError (an OSError) when the path does not exist
os_remove(files, path) ==
    IF path \in files THEN [fs |-> files \ {path}, raised |-> FALSE]
    ELSE [fs |-> files, raised |-> TRUE]

remove_quietly_nocatch(files, path) == os_remove(files, path)

\* main, lines 202-203: try: os.remove(path) / except OSError: pass
remove_quietly(files, path) == [fs |-> os_remove(files, path).fs, raised |-> FALSE]

RECURSIVE RemoveAll(_, _)
RemoveAll(st, paths) ==
    IF paths = <<>> \/ st.raised THEN st
    ELSE RemoveAll(remove_quietly(st.fs, Head(paths)), Tail(paths))

\* main, line 201: the list the cleanup loop walks
cleanup_paths(k) == <<voice_fp(k), slide_fp(k), video_fp(k), thumb_fp(k)>>

\* main, lines 201-203
cleanup(files, k) == RemoveAll([fs |-> files, raised |-> FALSE], cleanup_paths(k))

---------------------------------------------------------------------------
(* 2-4, 6. The media stages.  A stage that raises may leave its output     *)
(* file behind, complete or not (left).                                    *)

StageResults == {"ok", "raise"}

\* synthesize_voice, assemble_video, create_thumbnail: one library call
\* writing out_path
write_stage(files, out_path, result, left) ==
    IF result = "ok" THEN [fs |-> files \cup {out_path}, raised |-> FALSE]
    ELSE [fs |-> IF left THEN files \cup {out_path} ELSE files, raised |-> TRUE]

SlideResults == {"ok", "sd_raise", "encode_raise"}

\* generate_broll_slide: the image model runs, the frame is saved, the
\* slide is encoded from it, the frame is removed
generate_broll_slide(files, k, result, left) ==
    IF result = "sd_raise" THEN [fs |-> files, raised |-> TRUE]
    ELSE LET framed == files \cup {frame_path(k)}
         IN  IF result = "encode_raise"
             THEN [fs |-> IF left THEN framed \cup {slide_fp(k)} ELSE framed,
                   raised |-> TRUE]
             ELSE [fs |-> os_remove(framed \cup {slide_fp(k)}, frame_path(k)).fs,
                   raised |-> FALSE]

---------------------------------------------------------------------------
(* 7. get_authenticated_service *)

\* a credential: its access token (0 for None, else the token's identity),
\* whether its expiry has passed, and whether it has a refresh token
Creds == [token : 0..2, expired : BOOLEAN, refresh_token : BOOLEAN]

\* google.oauth2 Credentials.valid
Valid(c) == c.token # 0 /\ ~c.expired

\* the access token a refresh or an authorization hands out: not the old one
NewToken(old) == IF old = 1 THEN 2 ELSE 1

\* what the environment decides during one call
AuthEnvs == [expires : BOOLEAN, refreshOk : BOOLEAN, flowOk : BOOLEAN, flowRT : BOOLEAN]

\* lines 138-141; expiry is read against the clock, so a stored credential
\* may have expired since it was written
LoadCreds(file, env) ==
    IF file = <<>> THEN <<>>
    ELSE <<[file[1] EXCEPT !.expired = @ \/ env.expires]>>

\* line 142
NeedsCreds(loaded) == loaded = <<>> \/ ~Valid(loaded[1])

\* line 143
CanRefresh(loaded) == loaded # <<>> /\ loaded[1].expired /\ loaded[1].refresh_token

\* lines 142-147: the credential to use, how it was obtained, and the calls made
Acquire(loaded, env) ==
    IF ~NeedsCreds(loaded)
    THEN [raised |-> FALSE, creds |-> loaded, changed |-> FALSE, trace |-> <<>>]
    ELSE IF CanRefresh(loaded)
    THEN IF env.refreshOk
         THEN [raised |-> FALSE,
               creds |-> <<[loaded[1] EXCEPT !.token = NewToken(@), !.expired = FALSE]>>,
               changed |-> TRUE, trace |-> <<"refresh">>]
         ELSE [raised |-> TRUE, creds |-> loaded, changed |-> FALSE,
               trace |-> <<"refresh">>]
    ELSE IF env.flowOk
         THEN [raised |-> FALSE,
               creds |-> <<[token |-> NewToken(IF loaded = <<>> THEN 0 ELSE loaded[1].token),
                            expired |-> FALSE, refresh_token |-> env.flowRT]>>,
               changed |-> TRUE, trace |-> <<"flow">>]
         ELSE [raised |-> TRUE, creds |-> loaded, changed |-> FALSE,
               trace |-> <<"flow">>]

Persist_never(file, a) == file

\* lines 148-149: inside the "if not creds or not creds.valid" branch
Persist(file, a) == IF a.changed /\ ~a.raised THEN a.creds ELSE file

get_authenticated_service(file, env) ==
    LET loaded == LoadCreds(file, env)
        a == Acquire(loaded, env)
    IN  [raised |-> a.raised,
         creds |-> a.creds,
         loaded |-> loaded,
         cache |-> file,
         file |-> Persist(file, a),
         trace |-> (IF file = <<>> THEN <<>> ELSE <<"load">>) \o a.trace
                   \o (IF a.changed /\ ~a.raised THEN <<"dump">> ELSE <<>>)
                   \o (IF a.raised THEN <<>> ELSE <<"build">>)]

\* no call yet
NoAuth ==
    [raised |-> FALSE, creds |-> <<>>, loaded |-> <<>>, cache |-> <<>>, file |-> <<>>,
     trace |-> <<>>]

---------------------------------------------------------------------------
(* 8. upload_video *)

\* HTTP status of the videos().insert request
Statuses == {200, FORBIDDEN, 500}

Swallowed_never(status) == FALSE

\* lines 163-170: the except clause returns on 403 and re-raises otherwise
Swallowed(status) == status = FORBIDDEN

\* the result of the request: "uploaded", "denied" (403) or "error"
RequestResult(status) ==
    IF status = 200 THEN "uploaded" ELSE IF status = FORBIDDEN THEN "denied" ELSE "error"

\* lines 155-170, once the service is at hand: MediaFileUpload opens the
\* file, then the insert request is executed
upload_with(a, called, files, path, status) ==
    IF a.raised \/ path \notin files
    THEN [raised |-> TRUE, result |-> "none", auth |-> a, called |-> called]
    ELSE [raised |-> status # 200 /\ ~Swallowed(status),
          result |-> RequestResult(status), auth |-> a, called |-> called]

upload_video_cached(file, files, path, calls, env, status) ==
    IF calls = 0
    THEN upload_with(get_authenticated_service(file, env), TRUE, files, path, status)
    ELSE upload_with([NoAuth EXCEPT !.file = file], FALSE, files, path, status)

\* lines 153-170; line 154 asks for the service on every call, whatever the
\* number of earlier calls
upload_video(file, files, path, calls, env, status) ==
    upload_with(get_authenticated_service(file, env), TRUE, files, path, status)

---------------------------------------------------------------------------
(* main *)

\* what the quote endpoint answers with: a JSON array of objects; the "a"
\* key may be missing, and an author may hold a space or a tab
SampleItems ==
    << [q |-> <<"x">>, a |-> <<"M", " ", "A">>],
       [q |-> <<"y">>],
       [q |-> <<"z">>, a |-> <<"B", "\t", "C">>] >>

PipelineResponse(n) == [j \in 1..n |-> SampleItems[((j - 1) % Len(SampleItems)) + 1]]

\* utcnow() at line 175
Nows == [day : {1}, hour : {0, 23}, minute : {0, 59}]

AfterRaise_skip(stage) == IF stage = "fetch" THEN "aborted" ELSE "cleanup"

\* main has no try around a stage: an exception leaves main and the process
AfterRaise(stage) == "aborted"

StageAfter_early_upload(stage) ==
    CASE stage = "voice" -> "slide"
      [] stage = "slide" -> "upload"
      [] stage = "upload" -> "assemble"
      [] stage = "assemble" -> "thumb"
      [] stage = "thumb" -> "cleanup"
      [] OTHER -> "voice"

\* main, lines 185-203: the order of the calls in the loop body
StageAfter(stage) ==
    CASE stage = "voice" -> "slide"
      [] stage = "slide" -> "assemble"
      [] stage = "assemble" -> "thumb"
      [] stage = "thumb" -> "upload"
      [] stage = "upload" -> "cleanup"
      [] OTHER -> "voice"

\* the stage at pc starts for item idx
Started(stage) == log' = Append(log, <<stage, idx>>)

\* the stage at pc ended: it raised, or main goes on
Ended(stage, raised) ==
    IF raised
    THEN /\ pc' = AfterRaise(stage)
         /\ failed' = stage
    ELSE /\ pc' = StageAfter(stage)
         /\ failed' = failed

Init ==
    /\ pc = "start"
    /\ idx = 0
    /\ quotes = <<>>
    /\ start = <<>>
    /\ fs = {}
    /\ tokenFile \in {<<>>} \cup {<<c>> : c \in Creds}
    /\ outcome = <<>>
    /\ sent = <<>>
    /\ log = <<>>
    /\ failed = "none"
    /\ authCalls = 0
    /\ buildCalls = 0
    /\ auth = NoAuth
    /\ fqData = <<>> /\ fqMax = 0 /\ fqOut = <<>>
    /\ ghAuthor = <<>> /\ ghOut = <<>>
    /\ clRuns = 0 /\ clRaised = FALSE /\ clBefore = <<>>

\* lines 174-175
Fetch ==
    /\ pc = "start"
    /\ \E n \in 0..MaxResp, ok \in BOOLEAN, now \in Nows :
         /\ Started("fetch")
         /\ IF ok
            THEN /\ quotes' = fetch_quotes(PipelineResponse(n), MAX_ENTRIES)
                 /\ start' = <<ReplaceTime(now, START_HOUR)>>
                 /\ outcome' = [k \in 0..(Len(quotes') - 1) |-> "none"]
                 /\ sent' = [k \in 0..(Len(quotes') - 1) |-> <<>>]
                 /\ pc' = IF Len(quotes') = 0 THEN "done" ELSE "voice"
                 /\ failed' = failed
            ELSE /\ pc' = AfterRaise("fetch")
                 /\ failed' = "fetch"
                 /\ UNCHANGED <<quotes, start, outcome, sent>>
    /\ UNCHANGED <<idx, fs, tokenFile, authCalls, buildCalls, auth>>
    /\ UNCHANGED <<fetchVars, tagVars, cleanVars>>

\* line 185
SynthesizeVoice ==
    /\ pc = "voice"
    /\ \E result \in StageResults, left \in BOOLEAN :
         LET r == write_stage(fs, voice_fp(idx), result, left)
         IN  /\ Started("voice")
             /\ fs' = r.fs
             /\ Ended("voice", r.raised)
    /\ UNCHANGED <<idx, quotes, start, tokenFile, outcome, sent, authCalls, buildCalls, auth>>
    /\ UNCHANGED <<fetchVars, tagVars, cleanVars>>

\* line 186
GenerateSlide ==
    /\ pc = "slide"
    /\ \E result \in SlideResults, left \in BOOLEAN :
         LET r == generate_broll_slide(fs, idx, result, left)
         IN  /\ Started("slide")
             /\ fs' = r.fs
             /\ Ended("slide", r.raised)
    /\ UNCHANGED <<idx, quotes, start, tokenFile, outcome, sent, authCalls, buildCalls, auth>>
    /\ UNCHANGED <<fetchVars, tagVars, cleanVars>>

\* line 187; AudioFileClip and VideoFileClip raise when an input is missing
AssembleVideo ==
    /\ pc = "assemble"
    /\ \E result \in StageResults, left \in BOOLEAN :
         LET have == {voice_fp(idx), slide_fp(idx)} \subseteq fs
             r == IF have THEN write_stage(fs, video_fp(idx), result, left)
                  ELSE [fs |-> fs, raised |-> TRUE]
         IN  /\ Started("assemble")
             /\ fs' = r.fs
             /\ Ended("assemble", r.raised)
    /\ UNCHANGED <<idx, quotes, start, tokenFile, outcome, sent, authCalls, buildCalls, auth>>
    /\ UNCHANGED <<fetchVars, tagVars, cleanVars>>

\* line 188
CreateThumbnail ==
    /\ pc = "thumb"
    /\ \E result \in StageResults, left \in BOOLEAN :
         LET r == write_stage(fs, thumb_fp(idx), result, left)
         IN  /\ Started("thumb")
             /\ fs' = r.fs
             /\ Ended("thumb", r.raised)
    /\ UNCHANGED <<idx, quotes, start, tokenFile, outcome, sent, authCalls, buildCalls, auth>>
    /\ UNCHANGED <<fetchVars, tagVars, cleanVars>>

\* lines 189-199
Upload ==
    /\ pc = "upload"
    /\ \E env \in AuthEnvs, status \in Statuses :
         LET publish_at == publish_time(start[1], idx)
             hashtags == generate_hashtags(quotes[idx + 1])
             u == upload_video(tokenFile, fs, video_fp(idx), authCalls, env, status)
         IN  /\ Started("upload")
             /\ sent' = [sent EXCEPT ![idx] =
                           <<[video |-> video_fp(idx), publish_at |-> publish_at,
                              hashtags |-> hashtags]>>]
             /\ authCalls' = IF u.called THEN authCalls + 1 ELSE authCalls
             /\ buildCalls' = IF u.called /\ ~u.auth.raised THEN buildCalls + 1
                              ELSE buildCalls
             /\ auth' = IF u.called THEN u.auth ELSE auth
             /\ tokenFile' = u.auth.file
             /\ outcome' = [outcome EXCEPT ![idx] = u.result]
             /\ Ended("upload", u.raised)
    /\ UNCHANGED <<idx, quotes, start, fs>>
    /\ UNCHANGED <<fetchVars, tagVars, cleanVars>>

\* lines 200-203, and the loop's step to the next item
Cleanup ==
    /\ pc = "cleanup"
    /\ LET r == cleanup(fs, idx)
       IN  /\ Started("cleanup")
           /\ fs' = r.fs
           /\ IF r.raised
              THEN /\ pc' = AfterRaise("cleanup")
                   /\ failed' = "cleanup"
                   /\ idx' = idx
              ELSE /\ idx' = idx + 1
                   /\ pc' = IF idx + 1 < Len(quotes) THEN StageAfter("cleanup") ELSE "done"
                   /\ failed' = failed
    /\ UNCHANGED <<quotes, start, tokenFile, outcome, sent, authCalls, buildCalls, auth>>
    /\ UNCHANGED <<fetchVars, tagVars, cleanVars>>

Next ==
    \/ Fetch
    \/ SynthesizeVoice
    \/ GenerateSlide
    \/ AssembleVideo
    \/ CreateThumbnail
    \/ Upload
    \/ Cleanup

Spec == Init /\ [][Next]_vars

---------------------------------------------------------------------------
(* fetch_quotes on its own: every short response over FetchItems, the      *)
(* longer responses of the pipeline, and max_entries around their lengths  *)

FetchItems ==
    { [q |-> <<"x">>, a |-> <<"A">>],
      [q |-> <<"y">>],
      [a |-> <<"B">>],
      [q |-> <<"z">>, a |-> <<"C">>, h |-> <<"h">>] }

RECURSIVE SeqsUpTo(_, _)
SeqsUpTo(S, n) ==
    IF n = 0 THEN {<<>>}
    ELSE LET shorter == SeqsUpTo(S, n - 1)
         IN  shorter \cup {Append(t, x) : t \in shorter, x \in S}

InitIdle ==
    /\ pc = "start"
    /\ idx = 0
    /\ quotes = <<>>
    /\ start = <<>>
    /\ tokenFile = <<>>
    /\ outcome = <<>>
    /\ sent = <<>>
    /\ log = <<>>
    /\ failed = "none"
    /\ authCalls = 0
    /\ buildCalls = 0
    /\ auth = NoAuth

InitFetch ==
    /\ InitIdle
    /\ fs = {}
    /\ fqData \in SeqsUpTo(FetchItems, MaxFetchLen)
                  \cup {PipelineResponse(n) : n \in MAX_ENTRIES..(MAX_ENTRIES + MaxFetchLen)}
    /\ fqMax \in 0..(MaxFetchLen + 1) \cup {MAX_ENTRIES}
    /\ fqOut = <<>>
    /\ ghAuthor = <<>> /\ ghOut = <<>>
    /\ clRuns = 0 /\ clRaised = FALSE /\ clBefore = <<>>

FetchQuotesCall ==
    /\ fqOut = <<>>
    /\ fqOut' = <<fetch_quotes(fqData, fqMax)>>
    /\ UNCHANGED <<fqData, fqMax, fs, pipeVars, tagVars, cleanVars>>

NextFetch == FetchQuotesCall

SpecFetch == InitFetch /\ [][NextFetch]_vars

---------------------------------------------------------------------------
(* generate_hashtags on its own: every author string over AuthorChars *)

AuthorChars == {"A", "b", " ", "\t"}

InitTags ==
    /\ InitIdle
    /\ fs = {}
    /\ fqData = <<>> /\ fqMax = 0 /\ fqOut = <<>>
    /\ ghAuthor \in SeqsUpTo(AuthorChars, MaxAuthorLen)
    /\ ghOut = <<>>
    /\ clRuns = 0 /\ clRaised = FALSE /\ clBefore = <<>>

GenerateHashtagsCall ==
    /\ ghOut = <<>>
    /\ ghOut' = <<generate_hashtags([quote |-> <<"x">>, author |-> ghAuthor])>>
    /\ UNCHANGED <<ghAuthor, fs, pipeVars, fetchVars, cleanVars>>

NextTags == GenerateHashtagsCall

SpecTags == InitTags /\ [][NextTags]_vars

---------------------------------------------------------------------------
(* the cleanup step of main on its own: any set of the per-item files of   *)
(* items 0..MaxCleanIdx present, the step run for one item, twice          *)

InitClean ==
    /\ InitIdle
    /\ fs \in SUBSET (UNION {ItemFiles(k) : k \in 0..MaxCleanIdx})
    /\ fqData = <<>> /\ fqMax = 0 /\ fqOut = <<>>
    /\ ghAuthor = <<>> /\ ghOut = <<>>
    /\ clRuns = 0 /\ clRaised = FALSE /\ clBefore = <<>>

CleanupStep ==
    /\ clRuns < 2
    /\ ~clRaised
    /\ \E k \in 0..MaxCleanIdx :
         /\ clRuns > 0 => k = idx
         /\ LET r == cleanup(fs, k)
            IN  /\ idx' = k
                /\ clBefore' = Append(clBefore, fs)
                /\ fs' = r.fs
                /\ clRaised' = r.raised
                /\ clRuns' = clRuns + 1
    /\ UNCHANGED <<pc, quotes, start, tokenFile, outcome, sent, log, failed,
                   authCalls, buildCalls, auth, fetchVars, tagVars>>

NextClean == CleanupStep

SpecClean == InitClean /\ [][NextClean]_vars

---------------------------------------------------------------------------
(* Properties *)

Range(f) == {f[x] : x \in DOMAIN f}

\* the items whose upload_video call was made
Handed == {k \in DOMAIN sent : sent[k] # <<>>}

\* the stages of a complete run over n items, in program order
RECURSIVE ItemStages(_, _)
ItemStages(k, n) ==
    IF k >= n THEN <<>>
    ELSE << <<"voice", k>>, <<"slide", k>>, <<"assemble", k>>, <<"thumb", k>>,
            <<"upload", k>>, <<"cleanup", k>> >> \o ItemStages(k + 1, n)

FullRun(n) == << <<"fetch", 0>> >> \o ItemStages(0, n)

IsPrefix(s, t) == Len(s) <= Len(t) /\ \A j \in 1..Len(s) : s[j] = t[j]

SlotHours == <<9, 11, 13, 15, 17>>

\* C1: every item i handed to upload_video carries the publish time
\* base + (i div 5) days + (i mod 5) * 2 hours, base being the start day at
\* 09:00: items 0..4 get 09:00, 11:00, 13:00, 15:00, 17:00 on the base day,
\* items 5..9 the same hours on the next day.
C1_PublishTime ==
    \A i \in Handed :
        LET t == sent[i][1].publish_at
            base == start[1]
        IN  /\ base.hour = 9 /\ base.minute = 0
            /\ t = [day |-> base.day + (i \div 5), hour |-> 9 + (i % 5) * 2, minute |-> 0]
            /\ i \in 0..4 => t.day = base.day /\ t.hour = SlotHours[i + 1]
            /\ i \in 5..9 => t.day = base.day + 1 /\ t.hour = SlotHours[i - 4]

C1_Witness ==
    /\ 7 \in Handed
    /\ sent[7][1].publish_at = [day |-> start[1].day + 1, hour |-> 13, minute |-> 0]
    /\ sent[4][1].publish_at = [day |-> start[1].day, hour |-> 17, minute |-> 0]

\* C2 as stated: when the upload of item k gets the 403 answer, upload_video
\* does not raise, the cleanup of item k runs, and no stage of a later item
\* is ever started.
C2_DeniedStopsRun ==
    \A k \in DOMAIN outcome :
        outcome[k] = "denied" =>
            /\ ~(failed = "upload" /\ idx = k)
            /\ (pc = "cleanup" /\ idx = k) \/ <<"cleanup", k>> \in Range(log)
            /\ \A j \in 1..Len(log) : log[j][2] <= k

\* C2 amended: when the upload of item k gets the 403 answer, upload_video
\* does not raise, the cleanup of item k runs, item k is not uploaded again,
\* and the run then goes on with item k+1 when there is one.
C2_DeniedContinues ==
    \A k \in DOMAIN outcome :
        outcome[k] = "denied" =>
            /\ ~(failed = "upload" /\ idx = k)
            /\ (pc = "cleanup" /\ idx = k) \/ <<"cleanup", k>> \in Range(log)
            /\ Cardinality({j \in 1..Len(log) : log[j] = <<"upload", k>>}) = 1
            /\ (<<"cleanup", k>> \in Range(log) /\ k + 1 < Len(quotes)) =>
                   /\ idx >= k + 1
                   /\ (pc = "voice" /\ idx = k + 1) \/ <<"voice", k + 1>> \in Range(log)
            /\ (<<"cleanup", k>> \in Range(log) /\ k + 1 = Len(quotes)) => pc = "done"

C2_Witness ==
    \E k \in DOMAIN outcome :
        /\ outcome[k] = "denied"
        /\ <<"upload", k + 1>> \in Range(log)

\* C3: a stage of item k that raises (a media stage, or an upload whose answer
\* is an error other than 403) ends the run there: the raising stage is the
\* last one started, nothing changes afterwards, and no item that was
\* uploaded stops being uploaded.
C3_RaiseAborts ==
    [][ /\ failed' # "none" =>
              /\ pc' = "aborted"
              /\ log' # <<>> /\ log'[Len(log')] = <<failed', idx'>>
        /\ \A k \in DOMAIN outcome' : outcome'[k] = "error" => failed' = "upload" /\ idx' = k
        /\ failed # "none" => UNCHANGED <<log, outcome, fs, sent, idx, pc>>
        /\ \A k \in DOMAIN outcome : outcome[k] = "uploaded" => outcome'[k] = "uploaded"
      ]_vars

C3_Witness ==
    /\ pc = "aborted"
    /\ failed = "upload"
    /\ idx = 2
    /\ outcome[0] = "uploaded" /\ outcome[1] = "uploaded" /\ outcome[2] = "error"

C6_FetchTruncates ==
    fqOut # <<>> =>
        LET out == fqOut[1]
        IN  /\ Len(out) = Min(fqMax, Len(fqData))
            /\ \A j \in 1..Len(out) :
                  /\ DOMAIN out[j] = {"quote", "author"}
                  /\ out[j].quote = IF "q" \in DOMAIN fqData[j] THEN fqData[j].q ELSE <<>>
                  /\ out[j].author = IF "a" \in DOMAIN fqData[j] THEN fqData[j].a ELSE <<>>
            /\ (fqMax = 10 /\ Len(fqData) > 10) => Len(out) = 10

C6_Witness ==
    /\ fqOut # <<>>
    /\ fqMax = 10
    /\ Len(fqData) = 12
    /\ Len(fqOut[1]) = 10
    /\ fqOut[1][2] = [quote |-> <<"y">>, author |-> <<>>]

\* C7: for every author string, generate_hashtags returns six tags,
\* #Inspiration, #Motivation, #DailyQuote, #Viral, #Shorts and then '#'
\* followed by the author's name without its whitespace: the author tag
\* holds no whitespace character.
C7_HashtagsNoWhitespace ==
    ghOut # <<>> =>
        LET tags == ghOut[1]
        IN  /\ Len(tags) = 6
            /\ tags[1] = <<"#">> \o Str_Inspiration
            /\ tags[2] = <<"#">> \o Str_Motivation
            /\ tags[3] = <<"#">> \o Str_DailyQuote
            /\ tags[4] = <<"#">> \o Str_Viral
            /\ tags[5] = <<"#">> \o Str_Shorts
            /\ tags[6] = <<"#">> \o SelectSeq(ghAuthor, LAMBDA c : c \notin Whitespace)
            /\ \A j \in 1..Len(tags[6]) : tags[6][j] \notin Whitespace

\* C8: the cleanup step for an item, run on any set of files in which some
\* of the item's voice, slide, video and thumb files are missing, raises
\* nothing and removes exactly the item's files that exist; a second run
\* changes nothing.
C8_CleanupIdempotent ==
    clRuns >= 1 =>
        /\ ~clRaised
        /\ fs = clBefore[1] \ ItemFiles(idx)
        /\ clRuns = 2 => fs = clBefore[2]

C8_Witness ==
    /\ clRuns = 2
    /\ ~clRaised
    /\ voice_fp(idx) \notin clBefore[1]
    /\ thumb_fp(idx) \in clBefore[1]
    /\ thumb_fp(idx) \notin fs
    /\ fs # {}

Before(trace, a, b) ==
    \E i, j \in 1..Len(trace) : i < j /\ trace[i] = a /\ trace[j] = b

\* C9: get_authenticated_service uses a cached credential that is valid as
\* it is (no refresh, no interactive flow, no rewrite of the cache file),
\* refreshes one that is expired and has a refresh token, and runs the
\* interactive flow in every other case; a refreshed or newly authorized
\* credential is written to the cache file before the client is built, and
\* after a successful call the cache file holds the credential in use.
C9_AcquireRefreshCreate ==
    authCalls >= 1 =>
        LET l == auth.loaded
            tr == Range(auth.trace)
            valid == l # <<>> /\ l[1].token # 0 /\ ~l[1].expired
            refreshable == l # <<>> /\ ~valid /\ l[1].expired /\ l[1].refresh_token
        IN  /\ valid => /\ ~auth.raised
                        /\ auth.creds = l
                        /\ tr \cap {"refresh", "flow", "dump"} = {}
                        /\ auth.file = auth.cache
            /\ refreshable =>
                   /\ "refresh" \in tr /\ "flow" \notin tr
                   /\ ~auth.raised => /\ auth.creds[1].token # l[1].token
                                      /\ auth.creds[1].refresh_token
            /\ (~valid /\ ~refreshable) => "flow" \in tr /\ "refresh" \notin tr
            /\ (~auth.raised /\ tr \cap {"refresh", "flow"} # {}) =>
                   Before(auth.trace, "dump", "build")
            /\ ~auth.raised => /\ auth.file = auth.creds
                               /\ tokenFile = auth.creds
                               /\ auth.creds[1].token # 0 /\ ~auth.creds[1].expired
                               /\ "build" \in tr
            /\ auth.raised => auth.file = auth.cache /\ "build" \notin tr
            /\ tokenFile = auth.file

C9_Witness ==
    /\ authCalls >= 2
    /\ auth.trace = <<"load", "refresh", "dump", "build">>
    /\ auth.cache # tokenFile
    /\ tokenFile = auth.creds

\* C10: the stages run one after the other in program order: the quote
\* fetch first (nothing else when it fails), then for each item in index
\* order voice, slide, assemble, thumbnail, upload, cleanup; the upload of
\* item k starts with the assembled video of item k on disk, and no stage of
\* item k+1 starts before the cleanup of item k is over.
C10_StageOrder ==
    /\ IsPrefix(log, FullRun(Len(quotes)))
    /\ failed = "fetch" => log = << <<"fetch", 0>> >>
    /\ pc = "upload" => video_fp(idx) \in fs
    /\ \A j \in 1..Len(log) :
          log[j][1] = "upload" => j > 2 /\ log[j - 2] = <<"assemble", log[j][2]>>
    /\ \A j \in 2..Len(log) :
          (log[j][1] # "fetch" /\ log[j][2] >= 1 /\ log[j - 1][2] < log[j][2])
              => log[j - 1] = <<"cleanup", log[j][2] - 1>>
    /\ (pc \in {"voice", "slide", "assemble", "thumb", "upload", "cleanup"} /\ idx >= 1)
           => ItemFiles(idx - 1) \cap fs = {}

C10_Witness ==
    /\ pc = "done"
    /\ Len(quotes) = 2
    /\ log = FullRun(2)

====
